---- MODULE Spec2Model ----
(***************************************************************************)
(* A model of src/src/transform.py: the pricat -> catalog transformation.  *)
(*                                                                         *)
(* Strings are TLA+ strings, read character by character with SubSeq, so   *)
(* that strip, split, join and float parsing are computed, not assumed.    *)
(* A Python dict is an insertion-ordered association list: a sequence of   *)
(* <<key, value>> pairs with pairwise distinct keys.                       *)
(***************************************************************************)
EXTENDS Integers, Sequences, FiniteSets, TLC

(***************************************************************************)
(* Bounds of the model.                                                    *)
(***************************************************************************)
\* The longest pricat feed (rows after the header line).
MaxRows == 3
\* The longest mappings file (rule rows after the header line).
MaxRules == 3

(***************************************************************************)
(* Python values and outcomes.                                             *)
(***************************************************************************)
\* A call either returns a value or raises.
Return(v) == [returned |-> v]
Raise(kind, message) == [raised |-> kind, message |-> message]
IsRaise(o) == "raised" \in DOMAIN o
IsReturn(o) == "returned" \in DOMAIN o

\* None, for catalog_brand before the first row.
None == [none |-> TRUE]

\* The two kinds of value a variation holds: a str and a float.
Str(s) == [str |-> s]
IsStr(v) == "str" \in DOMAIN v
IsFloat(v) == "float" \in DOMAIN v

(***************************************************************************)
(* dict: insertion-ordered association lists.                              *)
(***************************************************************************)
EmptyDict == << >>
DictKeys(d) == {d[i][1] : i \in DOMAIN d}
DictHas(d, k) == \E i \in DOMAIN d : d[i][1] = k
\* d.get(k, default)
DictGet(d, k, default) ==
    IF DictHas(d, k) THEN d[CHOOSE i \in DOMAIN d : d[i][1] = k][2] ELSE default
\* d[k] = v: an existing key keeps its position, a new key goes last.
DictSet(d, k, v) ==
    IF DictHas(d, k)
    THEN [i \in DOMAIN d |-> IF d[i][1] = k THEN <<k, v>> ELSE d[i]]
    ELSE Append(d, <<k, v>>)
\* list(d.values())
DictValues(d) == [i \in DOMAIN d |-> d[i][2]]

(***************************************************************************)
(* str: the methods transform.py calls.                                    *)
(***************************************************************************)
CharAt(s, i) == SubSeq(s, i, i)
Whitespace == {" ", "\t", "\n", "\r", "\f"}

RECURSIVE lstrip(_)
lstrip(s) ==
    IF Len(s) > 0 /\ CharAt(s, 1) \in Whitespace THEN lstrip(Tail(s)) ELSE s

RECURSIVE rstrip(_)
rstrip(s) ==
    IF Len(s) > 0 /\ CharAt(s, Len(s)) \in Whitespace
    THEN rstrip(SubSeq(s, 1, Len(s) - 1))
    ELSE s

\* s.strip()
strip(s) == rstrip(lstrip(s))

\* The index of the first sep at or after i, or Len(s) + 1.
RECURSIVE FindChar(_, _, _)
FindChar(s, sep, i) ==
    IF i > Len(s) \/ CharAt(s, i) = sep THEN i ELSE FindChar(s, sep, i + 1)

\* s.split(sep) for a one-character sep: "a||b" gives a, "", b; "" gives "".
RECURSIVE split(_, _)
split(s, sep) ==
    LET j == FindChar(s, sep, 1)
    IN  IF j > Len(s)
        THEN <<s>>
        ELSE <<SubSeq(s, 1, j - 1)>> \o split(SubSeq(s, j + 1, Len(s)), sep)

\* sep.join(parts)
RECURSIVE join(_, _)
join(sep, parts) ==
    IF Len(parts) = 0 THEN ""
    ELSE IF Len(parts) = 1 THEN parts[1]
    ELSE parts[1] \o sep \o join(sep, Tail(parts))

(***************************************************************************)
(* float(v): Python's string-to-float grammar.  The value is kept as an    *)
(* exact decimal sign * man * 10^exp, normalised so that equal numbers are *)
(* equal records ("0.10" and "0.1"); binary rounding and overflow to inf   *)
(* are outside the model.                                                  *)
(***************************************************************************)
DigitChars == "0123456789"
UpperChars == "ABCDEFGHIJKLMNOPQRSTUVWXYZ"
LowerChars == "abcdefghijklmnopqrstuvwxyz"

IsDigit(c) == \E i \in 1..Len(DigitChars) : CharAt(DigitChars, i) = c
DigitVal(c) == (CHOOSE i \in 1..Len(DigitChars) : CharAt(DigitChars, i) = c) - 1

LowerChar(c) ==
    IF \E i \in 1..Len(UpperChars) : CharAt(UpperChars, i) = c
    THEN CharAt(LowerChars, CHOOSE i \in 1..Len(UpperChars) : CharAt(UpperChars, i) = c)
    ELSE c

RECURSIVE lower(_)
lower(s) == IF Len(s) = 0 THEN "" ELSE LowerChar(CharAt(s, 1)) \o lower(Tail(s))

\* The index after the digitpart (digit (["_"] digit)*) starting at i; i if none.
RECURSIVE DigitPartRest(_, _)
DigitPartRest(s, j) ==
    IF j <= Len(s) /\ IsDigit(CharAt(s, j)) THEN DigitPartRest(s, j + 1)
    ELSE IF j + 1 <= Len(s) /\ CharAt(s, j) = "_" /\ IsDigit(CharAt(s, j + 1))
         THEN DigitPartRest(s, j + 2)
         ELSE j
DigitPartEnd(s, i) ==
    IF i <= Len(s) /\ IsDigit(CharAt(s, i)) THEN DigitPartRest(s, i + 1) ELSE i

\* The digits of s[i..j-1], underscores dropped.
RECURSIVE DigitsOf(_, _, _)
DigitsOf(s, i, j) ==
    IF i >= j THEN ""
    ELSE IF CharAt(s, i) = "_" THEN DigitsOf(s, i + 1, j)
    ELSE CharAt(s, i) \o DigitsOf(s, i + 1, j)

RECURSIVE DigitsToNat(_, _)
DigitsToNat(ds, acc) ==
    IF Len(ds) = 0 THEN acc ELSE DigitsToNat(Tail(ds), acc * 10 + DigitVal(Head(ds)))

\* The float sign * man * 10^exp, trailing zeros of man moved into exp.
RECURSIVE Float(_, _, _)
Float(sign, man, exp) ==
    IF man = 0 THEN [float |-> "finite", sign |-> sign, man |-> 0, exp |-> 0]
    ELSE IF man % 10 = 0 THEN Float(sign, man \div 10, exp + 1)
    ELSE [float |-> "finite", sign |-> sign, man |-> man, exp |-> exp]
FloatSpecial(sign, which) == [float |-> which, sign |-> sign, man |-> 0, exp |-> 0]

NotAFloat == Raise("ValueError", "could not convert string to float")

\* The number int.frac * 10^exponent, its exponent's digitpart being t[c..d-1].
FloatExponent(t, sign, int, frac, esign, c, d) ==
    IF d = c \/ d # Len(t) + 1 THEN NotAFloat
    ELSE Return(Float(sign, DigitsToNat(int \o frac, 0),
                      esign * DigitsToNat(DigitsOf(t, c, d), 0) - Len(frac)))

\* After the mantissa int.frac, which ends before index b: an exponent or the end.
FloatMantissa(t, sign, int, frac, b) ==
    IF Len(int) = 0 /\ Len(frac) = 0 THEN NotAFloat
    ELSE IF b <= Len(t) /\ CharAt(t, b) \in {"e", "E"}
    THEN IF b + 1 <= Len(t) /\ CharAt(t, b + 1) \in {"+", "-"}
         THEN FloatExponent(t, sign, int, frac,
                            IF CharAt(t, b + 1) = "-" THEN -1 ELSE 1,
                            b + 2, DigitPartEnd(t, b + 2))
         ELSE FloatExponent(t, sign, int, frac, 1, b + 1, DigitPartEnd(t, b + 1))
    ELSE IF b # Len(t) + 1 THEN NotAFloat
    ELSE Return(Float(sign, DigitsToNat(int \o frac, 0), -Len(frac)))

\* After the point at index a: the fraction t[a+1..b-1].
FloatFraction(t, sign, p, a, b) ==
    FloatMantissa(t, sign, DigitsOf(t, p, a), DigitsOf(t, a + 1, b), b)

\* After the integer part t[p..a-1]: a point and a fraction, or neither.
FloatInteger(t, sign, p, a) ==
    IF a <= Len(t) /\ CharAt(t, a) = "."
    THEN FloatFraction(t, sign, p, a, DigitPartEnd(t, a + 1))
    ELSE FloatMantissa(t, sign, DigitsOf(t, p, a), "", a)

\* After the sign, from index p: inf, infinity, nan (in any case) or a number.
FloatUnsigned(t, sign, p, word) ==
    IF word \in {"inf", "infinity"} THEN Return(FloatSpecial(sign, "inf"))
    ELSE IF word = "nan" THEN Return(FloatSpecial(sign, "nan"))
    ELSE FloatInteger(t, sign, p, DigitPartEnd(t, p))

\* float of a string without surrounding whitespace.
FloatStripped(t) ==
    IF Len(t) >= 1 /\ CharAt(t, 1) \in {"+", "-"}
    THEN FloatUnsigned(t, IF CharAt(t, 1) = "-" THEN -1 ELSE 1, 2, lower(Tail(t)))
    ELSE FloatUnsigned(t, 1, 1, lower(t))

\* float(v): Return(a float) or Raise("ValueError", ...).
float(v) == FloatStripped(strip(v))

(***************************************************************************)
(* Files.  A CSV file is absent, or has a header line (fieldnames) and     *)
(* rows; a file without a header line has fieldnames None.  A reader row   *)
(* is a dict from the header names to cells; a cell is Str(s), or None     *)
(* where the line is shorter than the header.  Lines longer than the       *)
(* header and headers that repeat a name are not among the inputs.         *)
(***************************************************************************)
NoFile == [exists |-> FALSE]
List(items) == [list |-> items]
CsvFile(header, rows) == [exists |-> TRUE, fieldnames |-> List(header), rows |-> rows]
\* A file with no line at all.
EmptyFile == [exists |-> TRUE, fieldnames |-> None, rows |-> << >>]

\* {k: (v if v is not None else "") for k, v in row.items()}
NormalizeRow(row) ==
    [i \in DOMAIN row |-> <<row[i][1], IF row[i][2] = None THEN "" ELSE row[i][2].str>>]

\* read_csv_rows: the rows the generator yields, or the error it raises.
read_csv_rows(file) ==
    IF file.fieldnames = None
    THEN Raise("ValueError", "No headers")
    ELSE Return([i \in DOMAIN file.rows |-> NormalizeRow(file.rows[i])])

(***************************************************************************)
(* load_mappings_index                                                     *)
(***************************************************************************)
NUMERIC_FIELDS == {"price_buy_net", "price_buy_gross", "price_sell", "discount_rate"}

\* tuple(part.strip() for part in source_type_raw.split("|") if part.strip())
RECURSIVE StripNonEmpty(_)
StripNonEmpty(parts) ==
    IF Len(parts) = 0 THEN << >>
    ELSE IF strip(Head(parts)) # ""
         THEN <<strip(Head(parts))>> \o StripNonEmpty(Tail(parts))
         ELSE StripNonEmpty(Tail(parts))
ParseFields(source_type_raw) == StripNonEmpty(split(source_type_raw, "|"))

\* IndexInsert with the tuple moved to the end of the index when it is there.
IndexInsertLast(idx, fields, source, hit) ==
    Append(SelectSeq(idx, LAMBDA item : item[1] # fields),
           <<fields, DictSet(DictGet(idx, fields, EmptyDict), source, hit)>>)

\* idx[fields][source] = (dest_type, dest_value), idx a defaultdict(dict).
IndexInsert(idx, fields, source, hit) ==
    DictSet(idx, fields, DictSet(DictGet(idx, fields, EmptyDict), source, hit))

\* One turn of the loop over the rule rows: the index with rule r added, or
\* the error r raises.
LoadRule(idx, r) ==
    LET source_type_raw == strip(DictGet(r, "source_type", ""))
        source          == strip(DictGet(r, "source", ""))
        dest_type       == strip(DictGet(r, "destination_type", ""))
        dest_value      == strip(DictGet(r, "destination", ""))
        fields          == ParseFields(source_type_raw)
    IN  IF source_type_raw = "" \/ dest_type = ""
        THEN Raise("ValueError", "Mapping row invalid (source_type/destination_type empty)")
        ELSE IF Len(fields) = 0
        THEN Raise("ValueError", "Mapping row invalid (empty fields)")
        ELSE Return(IndexInsert(idx, fields, source, <<dest_type, dest_value>>))

RECURSIVE LoadRules(_, _, _)
LoadRules(rows, i, idx) ==
    IF i > Len(rows) THEN Return(idx)
    ELSE LET o == LoadRule(idx, rows[i])
         IN  IF IsRaise(o) THEN o ELSE LoadRules(rows, i + 1, o.returned)

load_mappings_index(file) ==
    LET rd == read_csv_rows(file)
    IN  IF IsRaise(rd) THEN rd ELSE LoadRules(rd.returned, 1, EmptyDict)

(***************************************************************************)
(* row_to_variation                                                        *)
(***************************************************************************)
\* [row.get(field_name, "") for field_name in fields_tuple]
FieldValues(row, fields_tuple) ==
    [j \in DOMAIN fields_tuple |-> DictGet(row, fields_tuple[j], "")]

\* table.get(joined) for one (fields_tuple, table) item of the index: the hit
\* (dest_type, dest_value), or None.
Lookup(row, item) ==
    DictGet(item[2], join("|", FieldValues(row, item[1])), None)

\* ApplyHit without the marking of the input fields as consumed.
ApplyHitKeepingFields(st, fields_tuple, hit) ==
    IF hit = None THEN st
    ELSE [variation |-> DictSet(st.variation, hit[1], Str(hit[2])),
          consumed_input_fields |-> st.consumed_input_fields]

\* One turn of the loop over mappings_idx.items().
ApplyHit(st, fields_tuple, hit) ==
    IF hit = None THEN st
    ELSE [variation |-> DictSet(st.variation, hit[1], Str(hit[2])),
          consumed_input_fields |->
              st.consumed_input_fields \cup {fields_tuple[j] : j \in DOMAIN fields_tuple}]
ApplyItem(st, row, item) == ApplyHit(st, item[1], Lookup(row, item))

RECURSIVE ApplyItems(_, _, _, _)
ApplyItems(st, row, idx, i) ==
    IF i > Len(idx) THEN st ELSE ApplyItems(ApplyItem(st, row, idx[i]), row, idx, i + 1)

\* The first loop: the variation and the consumed fields it leaves.
ApplyMappings(row, idx) ==
    ApplyItems([variation |-> EmptyDict, consumed_input_fields |-> {}], row, idx, 1)

\* Whether the second loop copies the row item (k, v).
Copied(k, v, consumed) == ~(k = "brand") /\ ~(k \in consumed) /\ ~(v = "")

\* The value the second loop stores for the copied item (k, v).
\* try: float(v), except ValueError: v
FloatOrStr(v, f) == IF IsRaise(f) THEN Str(v) ELSE f.returned
\* CopiedValue without the conversion of the numeric fields.
CopiedValueRaw(k, v) == Str(v)
CopiedValue(k, v) == IF k \in NUMERIC_FIELDS THEN FloatOrStr(v, float(v)) ELSE Str(v)

\* CopyItem with the keys the mappings wrote left alone.
CopyItemKeepingMapped(variation, k, v, consumed) ==
    IF Copied(k, v, consumed) /\ ~DictHas(variation, k)
    THEN DictSet(variation, k, CopiedValue(k, v))
    ELSE variation

\* One turn of the loop over row.items(), from the variation so far.
CopyItem(variation, k, v, consumed) ==
    IF Copied(k, v, consumed) THEN DictSet(variation, k, CopiedValue(k, v)) ELSE variation

RECURSIVE CopyItems(_, _, _, _)
CopyItems(variation, row, consumed, i) ==
    IF i > Len(row) THEN variation
    ELSE CopyItems(CopyItem(variation, row[i][1], row[i][2], consumed), row, consumed, i + 1)

\* The second loop.
CopyRest(row, st) == CopyItems(st.variation, row, st.consumed_input_fields, 1)

row_to_variation(row, idx) == CopyRest(row, ApplyMappings(row, idx))

(***************************************************************************)
(* basic_validations.  isinstance(x, list) holds of every value the model  *)
(* builds under these keys (they are sequences), so only the presence and  *)
(* the count checks can fail.                                              *)
(***************************************************************************)
RECURSIVE CountVariations(_, _)
CountVariations(articles, i) ==
    IF i > Len(articles) THEN 0
    ELSE (IF "variations" \in DOMAIN articles[i] THEN Len(articles[i].variations) ELSE 0)
         + CountVariations(articles, i + 1)

basic_validations(result, n_rows) ==
    IF ~("catalog" \in DOMAIN result)
    THEN Raise("AssertionError", "JSON has no 'catalog' key")
    ELSE IF ~("articles" \in DOMAIN result.catalog)
    THEN Raise("AssertionError", "JSON has no 'catalog.articles'")
    ELSE IF CountVariations(result.catalog.articles, 1) # n_rows
    THEN Raise("AssertionError", "Mismatch rows vs variations")
    ELSE Return(None)

(***************************************************************************)
(* Inputs.                                                                 *)
(***************************************************************************)
\* The reader rows over a header, each cell drawn from the cells of its column.
RECURSIVE RowsOver(_, _)
RowsOver(header, cells) ==
    IF Len(header) = 0 THEN {<< >>}
    ELSE {<< <<Head(header), c>> >> \o rest :
             c \in cells[Head(header)], rest \in RowsOver(Tail(header), cells)}

\* The mappings file's rule rows.
MappingHeader == <<"source_type", "source", "destination_type", "destination">>
Rule(source_type, source, destination_type, destination) ==
    << <<"source_type", Str(source_type)>>, <<"source", Str(source)>>,
       <<"destination_type", Str(destination_type)>>, <<"destination", Str(destination)>> >>

RuleRows ==
    { Rule("size_group_code|size_code", "EU|38", "size", "European size 38"),
      Rule(" size_group_code | size_code ", " EU|38 ", "size", " EU 38 "),
      Rule("size_code", "38", "size", "S38"),
      Rule("season", "winter", "season", "Winter"),
      Rule("season", "winter", "brand", "Winter Brand"),
      Rule("price_sell", "139.950", "price_tier", "high"),
      \* a short line: the cells after the first are missing
      << <<"source_type", Str("season")>>, <<"source", None>>,
         <<"destination_type", None>>, <<"destination", None>> >> }

\* The mappings files of n rules.
MappingFiles(n) == {CsvFile(MappingHeader, rules) : rules \in [1..n -> RuleRows]}

\* The pricat rows row_to_variation is applied to: rows of a feed with sizes
\* and seasons, rows of a feed with prices and no size group.
VariationHeaders ==
    { <<"brand", "article_number", "size_group_code", "size_code", "season", "size">>,
      <<"brand", "size_code", "price_sell">> }
VariationCells ==
    [field \in {"brand", "article_number", "size_group_code", "size_code", "season",
                "size", "price_sell"} |->
        CASE field = "brand"           -> {Str("Via Vai")}
          [] field = "article_number"  -> {Str("A1")}
          [] field = "size_group_code" -> {Str("EU")}
          [] field = "size_code"       -> {Str("38"), Str("39")}
          [] field = "season"          -> {Str("winter"), Str("")}
          [] field = "size"            -> {Str("XL"), Str("")}
          [] field = "price_sell"      -> {Str("139.950"), Str("n/a"), None}]
VariationRows ==
    UNION {{NormalizeRow(r) : r \in RowsOver(h, VariationCells)} : h \in VariationHeaders}

\* The pricat files main is run on.
PricatHeaders == { <<"ean", "brand", "article_number">>, <<"ean", "article_number">> }
PricatCells ==
    [field \in {"ean", "brand", "article_number"} |->
        CASE field = "ean"            -> {Str("1"), Str("2")}
          [] field = "brand"          -> {Str("Via Vai"), Str("")}
          [] field = "article_number" -> {Str("A1"), Str("A2"), None}]
\* The pricat files of n rows under the header h.
PricatFiles(h, n) == {CsvFile(h, rows) : rows \in [1..n -> RowsOver(h, PricatCells)]}

\* The mappings files main is run on.
MainMappingFiles ==
    { NoFile,
      CsvFile(MappingHeader, <<Rule("ean", "1", "ean", "EAN-1")>>),
      CsvFile(MappingHeader, <<Rule("ean", "1", "ean", "EAN-1"), Rule(" | ", "1", "ean", "x")>>) }

\* The output path before the run: no parent directory, no file, or an old file.
OldOutput == [exists |-> TRUE, json |-> None]
OutputStates ==
    { [dir |-> FALSE, file |-> NoFile], [dir |-> TRUE, file |-> NoFile],
      [dir |-> TRUE, file |-> OldOutput] }

(***************************************************************************)
(* State.                                                                  *)
(***************************************************************************)
VARIABLES
    pricat_file,            \* the file at args.pricat
    mappings_file,          \* the file at args.mappings
    output,                 \* the output path: [dir, file]
    pc,                     \* where the run stands
    mappings_idx,           \* main's mappings_idx: None, then Return(the index)
    rows_read,              \* rows the pricat generator has yielded
    articles_by_number,     \* build_catalog_from_pricat's locals
    catalog_brand,
    rows_processed,
    row,                    \* the row at hand
    variation,              \* its variation
    consumed_input_fields,  \* row_to_variation's local
    built,                  \* main's [result, rows_processed]; None before the return
    outcome                 \* how the run ended: [exit_code, exception]; None while running

vars == <<pricat_file, mappings_file, output, pc, mappings_idx, rows_read,
          articles_by_number, catalog_brand, rows_processed, row, variation,
          consumed_input_fields, built, outcome>>

Locals0 ==
    /\ mappings_idx = None
    /\ rows_read = 0
    /\ articles_by_number = EmptyDict
    /\ catalog_brand = None
    /\ rows_processed = 0
    /\ variation = None
    /\ consumed_input_fields = {}
    /\ built = None
    /\ outcome = None

Exit(code) == [exit_code |-> code, exception |-> None]
\* An exception nothing catches ends the interpreter with exit code 1.
Uncaught(exception) == [exit_code |-> 1, exception |-> exception]

(***************************************************************************)
(* main, a stage at a time.                                                *)
(***************************************************************************)
Init ==
    /\ \/ pricat_file \in {NoFile, EmptyFile}
       \/ \E h \in PricatHeaders, n \in 0..MaxRows : pricat_file \in PricatFiles(h, n)
    /\ mappings_file \in MainMappingFiles
    /\ output \in OutputStates
    /\ pc = "check_paths"
    /\ row = None
    /\ Locals0

\* CheckPaths with the output's parent directory made before the paths are checked.
CheckPathsMakingDir ==
    /\ pc = "check_paths"
    /\ output' = [output EXCEPT !.dir = TRUE]
    /\ IF ~pricat_file.exists \/ ~mappings_file.exists
       THEN pc' = "exited" /\ outcome' = Exit(2)
       ELSE pc' = "load_mappings" /\ outcome' = outcome
    /\ UNCHANGED <<pricat_file, mappings_file, mappings_idx, rows_read,
                   articles_by_number, catalog_brand, rows_processed, row, variation,
                   consumed_input_fields, built>>

\* Paths validation.
CheckPaths ==
    /\ pc = "check_paths"
    /\ IF ~pricat_file.exists \/ ~mappings_file.exists
       THEN pc' = "exited" /\ outcome' = Exit(2)
       ELSE pc' = "load_mappings" /\ outcome' = outcome
    /\ UNCHANGED <<pricat_file, mappings_file, output, mappings_idx, rows_read,
                   articles_by_number, catalog_brand, rows_processed, row, variation,
                   consumed_input_fields, built>>

\* 1) Load mappings.
LoadMappings ==
    /\ pc = "load_mappings"
    /\ \E o \in {load_mappings_index(mappings_file)} :
          IF IsRaise(o)
          THEN pc' = "exited" /\ outcome' = Uncaught(o) /\ mappings_idx' = mappings_idx
          ELSE pc' = "build_catalog" /\ outcome' = outcome /\ mappings_idx' = o
    /\ UNCHANGED <<pricat_file, mappings_file, output, rows_read, articles_by_number,
                   catalog_brand, rows_processed, row, variation,
                   consumed_input_fields, built>>

InconsistentBrand(brand, row_brand) ==
    Raise("ValueError",
          "Inconsistent brand in pricat: catalog_brand='" \o brand
              \o "' vs row_brand='" \o row_brand \o "'")
MissingArticleNumber == Raise("ValueError", "pricat row without article_number")

\* AddVariation with the article's variations replaced instead of extended.
AddVariationReplacing(st, article_number, v) ==
    [st EXCEPT
        !.variation = v,
        !.articles_by_number =
            DictSet(@, article_number,
                    [article_number |-> article_number, variations |-> <<v>>])]

\* AddVariation with the variation put first instead of last.
AddVariationFirst(st, article_number, v) ==
    [st EXCEPT
        !.variation = v,
        !.articles_by_number =
            DictSet(@, article_number,
                    [article_number |-> article_number,
                     variations |->
                         <<v>> \o DictGet(st.articles_by_number, article_number,
                                          [variations |-> << >>]).variations])]

\* The locals after the variation v is appended to its article, which is
\* created when its number is new.
AddVariation(st, article_number, v) ==
    [st EXCEPT
        !.variation = v,
        !.articles_by_number =
            DictSet(@, article_number,
                    [article_number |-> article_number,
                     variations |->
                         Append(DictGet(st.articles_by_number, article_number,
                                        [variations |-> << >>]).variations, v)])]

\* if catalog_brand is None: catalog_brand = row_brand
AdoptBrand(st, row_brand) ==
    IF st.catalog_brand = None THEN [st EXCEPT !.catalog_brand = Str(row_brand)] ELSE st

\* CheckAndGroup without the brand check.
CheckAndGroupAnyBrand(st, r, idx, row_brand, article_number) ==
    IF article_number = ""
    THEN [locals |-> AdoptBrand(st, row_brand), raised |-> MissingArticleNumber]
    ELSE [locals |-> AddVariation(AdoptBrand(st, row_brand), article_number,
                                  row_to_variation(r, idx)),
          raised |-> None]

\* CheckAndGroup with the article number checked before the brand.
CheckAndGroupNumberFirst(st, r, idx, row_brand, article_number) ==
    IF article_number = ""
    THEN [locals |-> st, raised |-> MissingArticleNumber]
    ELSE IF st.catalog_brand # None /\ row_brand # st.catalog_brand.str
    THEN [locals |-> st, raised |-> InconsistentBrand(st.catalog_brand.str, row_brand)]
    ELSE [locals |-> AddVariation(AdoptBrand(st, row_brand), article_number,
                                  row_to_variation(r, idx)),
          raised |-> None]

\* The turn after the row is counted: the brand check, the article number
\* check, the variation.  The locals it leaves, and the exception or None.
CheckAndGroup(st, r, idx, row_brand, article_number) ==
    IF st.catalog_brand # None /\ row_brand # st.catalog_brand.str
    THEN [locals |-> st, raised |-> InconsistentBrand(st.catalog_brand.str, row_brand)]
    ELSE IF article_number = ""
    THEN [locals |-> AdoptBrand(st, row_brand), raised |-> MissingArticleNumber]
    ELSE [locals |-> AddVariation(AdoptBrand(st, row_brand), article_number,
                                  row_to_variation(r, idx)),
          raised |-> None]

\* One turn of build_catalog_from_pricat's loop on row r, from the locals st.
ProcessRowBody(st, r, idx) ==
    CheckAndGroup([st EXCEPT !.rows_processed = @ + 1], r, idx,
                  DictGet(r, "brand", ""), DictGet(r, "article_number", ""))

\* 2) Build catalog: the pricat file has no header line.
PricatNoHeaders ==
    /\ pc = "build_catalog"
    /\ \E rd \in {read_csv_rows(pricat_file)} :
          /\ IsRaise(rd)
          /\ outcome' = Uncaught(rd)
    /\ pc' = "exited"
    /\ UNCHANGED <<pricat_file, mappings_file, output, mappings_idx, rows_read,
                   articles_by_number, catalog_brand, rows_processed, row, variation,
                   consumed_input_fields, built>>

Locals ==
    [articles_by_number |-> articles_by_number, catalog_brand |-> catalog_brand,
     rows_processed |-> rows_processed, variation |-> variation]

\* 2) Build catalog: the loop's turn on the next row.
ProcessRow ==
    /\ pc = "build_catalog"
    /\ \E rd \in {read_csv_rows(pricat_file)} :
          /\ IsReturn(rd)
          /\ rows_read < Len(rd.returned)
          /\ row' = rd.returned[rows_read + 1]
          /\ \E o \in {ProcessRowBody(Locals, rd.returned[rows_read + 1], mappings_idx.returned)} :
                /\ articles_by_number' = o.locals.articles_by_number
                /\ catalog_brand' = o.locals.catalog_brand
                /\ rows_processed' = o.locals.rows_processed
                /\ variation' = o.locals.variation
                /\ IF o.raised = None
                   THEN pc' = pc /\ outcome' = outcome
                   ELSE pc' = "exited" /\ outcome' = Uncaught(o.raised)
    /\ rows_read' = rows_read + 1
    /\ UNCHANGED <<pricat_file, mappings_file, output, mappings_idx,
                   consumed_input_fields, built>>

\* The catalog build_catalog_from_pricat returns after the loop.
FinalStructure(brand, articles) ==
    [catalog |-> [brand |-> IF brand = None THEN "" ELSE brand.str,
                  articles |-> DictValues(articles)]]

\* 2) Build catalog: the rows are exhausted, the function returns.
FinishCatalog ==
    /\ pc = "build_catalog"
    /\ \E rd \in {read_csv_rows(pricat_file)} :
          IsReturn(rd) /\ rows_read = Len(rd.returned)
    /\ built' = [result |-> FinalStructure(catalog_brand, articles_by_number),
                 rows_processed |-> rows_processed]
    /\ pc' = "basic_validations"
    /\ UNCHANGED <<pricat_file, mappings_file, output, mappings_idx, rows_read,
                   articles_by_number, catalog_brand, rows_processed, row, variation,
                   consumed_input_fields, outcome>>

\* 3) Basic validations.
Validate ==
    /\ pc = "basic_validations"
    /\ \E o \in {basic_validations(built.result, built.rows_processed)} :
          IF IsRaise(o)
          THEN pc' = "exited" /\ outcome' = Uncaught(o)
          ELSE pc' = "write_output" /\ outcome' = outcome
    /\ UNCHANGED <<pricat_file, mappings_file, output, mappings_idx, rows_read,
                   articles_by_number, catalog_brand, rows_processed, row, variation,
                   consumed_input_fields, built>>

\* 4) Generate JSON output: mkdir the parent when missing, write the file.
WriteOutput ==
    /\ pc = "write_output"
    /\ output' = [dir |-> TRUE, file |-> [exists |-> TRUE, json |-> built.result]]
    /\ pc' = "exited"
    /\ outcome' = Exit(0)
    /\ UNCHANGED <<pricat_file, mappings_file, mappings_idx, rows_read,
                   articles_by_number, catalog_brand, rows_processed, row, variation,
                   consumed_input_fields, built>>

Next ==
    \/ CheckPaths
    \/ LoadMappings
    \/ PricatNoHeaders
    \/ ProcessRow
    \/ FinishCatalog
    \/ Validate
    \/ WriteOutput

Spec == Init /\ [][Next]_vars

(***************************************************************************)
(* The claims about main and build_catalog_from_pricat, under Spec.        *)
(***************************************************************************)
\* The rows of the feed, as the pricat generator yields them.
Feed == read_csv_rows(pricat_file).returned
BrandOf(r) == DictGet(r, "brand", "")
NumberOf(r) == DictGet(r, "article_number", "")

\* build_catalog_from_pricat was called on a feed with a header line and has
\* returned or raised.
BuildEnded ==
    /\ mappings_idx # None
    /\ pricat_file.fieldnames # None
    /\ built # None \/ pc = "exited"

\* Row i fails a check of the loop; row i is the first row that does.
Offends(i) == BrandOf(Feed[i]) # BrandOf(Feed[1]) \/ NumberOf(Feed[i]) = ""
FirstOffender(i) == Offends(i) /\ \A j \in 1..(i - 1) : ~Offends(j)

RECURSIVE TotalVariations(_)
TotalVariations(articles) ==
    IF Len(articles) = 0 THEN 0
    ELSE Len(Head(articles).variations) + TotalVariations(Tail(articles))

\* C1: whenever build_catalog_from_pricat returns, the lengths of the
\* variations of all articles of the catalog sum to the returned
\* rows_processed, which is the number of rows of the feed, and
\* basic_validations accepts the pair: the run never ends on its error.
C1_CountsAgree ==
    built # None =>
        /\ TotalVariations(built.result.catalog.articles) = built.rows_processed
        /\ built.rows_processed = Len(pricat_file.rows)
        /\ IsReturn(basic_validations(built.result, built.rows_processed))
        /\ pc = "exited" => outcome = Exit(0)

\* A feed of three rows grouped into two articles, validated and written.
C1_Witness ==
    /\ pc = "exited"
    /\ built # None
    /\ built.rows_processed = 3
    /\ Len(built.result.catalog.articles) = 2

\* C2, as stated: a later row whose brand differs from the first row's makes
\* the build fail with the inconsistent-brand error at that row, without a
\* catalog; a catalog that is returned has the brand of every row.
C2_Original ==
    BuildEnded =>
        /\ \A i \in 2..Len(Feed) :
              BrandOf(Feed[i]) # BrandOf(Feed[1]) =>
                  /\ built = None
                  /\ rows_read = i
                  /\ outcome.exception = InconsistentBrand(BrandOf(Feed[1]), BrandOf(Feed[i]))
        /\ built # None =>
              \A i \in 1..Len(Feed) : built.result.catalog.brand = BrandOf(Feed[i])

\* C2, amended: a later row whose brand differs from the first row's makes
\* the build fail, at that row or before it, without a catalog; the failure
\* is the inconsistent-brand error at that row, naming both brands, when no
\* earlier row fails a check (a differing brand, an empty article number).
\* A catalog that is returned has the brand of every row.
C2_BrandFixedByFirstRow ==
    BuildEnded =>
        /\ \A i \in 2..Len(Feed) :
              BrandOf(Feed[i]) # BrandOf(Feed[1]) =>
                  /\ built = None
                  /\ outcome.exit_code = 1
                  /\ rows_read <= i
                  /\ FirstOffender(i) =>
                        /\ rows_read = i
                        /\ outcome.exception =
                               InconsistentBrand(BrandOf(Feed[1]), BrandOf(Feed[i]))
        /\ built # None =>
              \A i \in 1..Len(Feed) : built.result.catalog.brand = BrandOf(Feed[i])

\* The third row is the first whose brand differs, and the build failed on it
\* with two rows grouped.
C2_Witness ==
    /\ pc = "exited"
    /\ BuildEnded
    /\ rows_read = 3
    /\ outcome.exception = InconsistentBrand("Via Vai", "")
    /\ TotalVariations(DictValues(articles_by_number)) = 2

\* C3: a returned catalog has one article per distinct article number of the
\* feed, in the order of the numbers' first rows, and the variations of an
\* article are those of the rows with its number, in row order.
FirstRowOf(number) ==
    CHOOSE i \in 1..Len(Feed) :
        NumberOf(Feed[i]) = number /\ \A j \in 1..(i - 1) : NumberOf(Feed[j]) # number
RECURSIVE VariationsFrom(_, _)
VariationsFrom(number, i) ==
    IF i > Len(Feed) THEN << >>
    ELSE (IF NumberOf(Feed[i]) = number
          THEN <<row_to_variation(Feed[i], mappings_idx.returned)>> ELSE << >>)
         \o VariationsFrom(number, i + 1)
C3_GroupedInFeedOrder ==
    built # None =>
        LET articles == built.result.catalog.articles
        IN  /\ {articles[k].article_number : k \in DOMAIN articles}
                   = {NumberOf(Feed[i]) : i \in 1..Len(Feed)}
            /\ \A k, l \in DOMAIN articles :
                  k < l => FirstRowOf(articles[k].article_number)
                               < FirstRowOf(articles[l].article_number)
            /\ \A k \in DOMAIN articles :
                  articles[k].variations = VariationsFrom(articles[k].article_number, 1)

\* Rows of numbers a, b, a: two articles, the first with the two different
\* variations of rows 1 and 3.
C3_Witness ==
    /\ built # None
    /\ Len(Feed) = 3
    /\ NumberOf(Feed[1]) = NumberOf(Feed[3])
    /\ NumberOf(Feed[2]) # NumberOf(Feed[1])
    /\ Len(built.result.catalog.articles) = 2
    /\ Len(built.result.catalog.articles[1].variations) = 2
    /\ built.result.catalog.articles[1].variations[1]
           # built.result.catalog.articles[1].variations[2]

\* The output file holds what this run wrote.
OutputWritten == output.file.exists /\ output.file.json # None
Validated == IsReturn(basic_validations(built.result, built.rows_processed))

\* C7: the output path (its parent directory, the file) changes only in the
\* step that follows the index construction, the catalog assembly and the
\* validation, which succeeded in that order, and that step ends the run with
\* exit code 0; a run that ends otherwise (exit code 2 for a missing input
\* path, an error of a stage) has written nothing.
C7_OutputOnlyAfterSuccess ==
    /\ [][output' # output =>
             /\ pc = "write_output"
             /\ mappings_idx # None /\ built # None /\ Validated
             /\ outcome' = Exit(0)]_vars
    /\ [](/\ rows_read > 0 \/ built # None => mappings_idx # None
          /\ pc = "write_output" => built # None /\ Validated
          /\ OutputWritten => pc = "exited" /\ outcome = Exit(0)
                               /\ output.file.json = built.result
          /\ pc = "exited" /\ (~pricat_file.exists \/ ~mappings_file.exists)
                 => outcome = Exit(2)
          /\ pc = "exited" /\ outcome # Exit(0) => ~OutputWritten)

\* A run that wrote the catalog of a feed of two rows into a new directory.
C7_Witness ==
    /\ OutputWritten
    /\ pc = "exited"
    /\ built.rows_processed = 2

\* C8, as stated: a row with an empty or absent article number makes the
\* build fail without a catalog or a row count, and the failure is the
\* missing-article-number error whenever that row's brand is the first row's.
C8_Original ==
    BuildEnded =>
        \A i \in 1..Len(Feed) :
            NumberOf(Feed[i]) = "" =>
                /\ built = None
                /\ BrandOf(Feed[i]) = BrandOf(Feed[1])
                       => outcome.exception = MissingArticleNumber

\* C8, amended: a row with an empty or absent article number makes the build
\* fail, at that row or before it, without a catalog or a row count, whatever
\* the earlier rows grouped.  When no earlier row fails a check, the build
\* fails at that row, before its variation is appended: with the
\* missing-article-number error when the row's brand is the first row's, and
\* with the inconsistent-brand error otherwise (the brand is checked first).
C8_MissingArticleNumberFails ==
    BuildEnded =>
        \A i \in 1..Len(Feed) :
            NumberOf(Feed[i]) = "" =>
                /\ built = None
                /\ outcome.exit_code = 1
                /\ rows_read <= i
                /\ FirstOffender(i) =>
                      /\ rows_read = i
                      /\ TotalVariations(DictValues(articles_by_number)) = i - 1
                      /\ outcome.exception =
                             IF BrandOf(Feed[i]) = BrandOf(Feed[1])
                             THEN MissingArticleNumber
                             ELSE InconsistentBrand(BrandOf(Feed[1]), BrandOf(Feed[i]))

\* The third row has no article number and the first row's brand; the build
\* failed on it with two articles grouped.
C8_Witness ==
    /\ pc = "exited"
    /\ BuildEnded
    /\ rows_read = 3
    /\ NumberOf(Feed[3]) = ""
    /\ outcome.exception = MissingArticleNumber
    /\ Len(articles_by_number) = 2

(***************************************************************************)
(* load_mappings_index and row_to_variation on their own: a mappings file  *)
(* and one row, the index built, then the two loops of row_to_variation.   *)
(***************************************************************************)
InitVariation ==
    /\ pricat_file = NoFile
    /\ \/ mappings_file = EmptyFile
       \/ \E n \in 0..MaxRules : mappings_file \in MappingFiles(n)
    /\ output = [dir |-> FALSE, file |-> NoFile]
    /\ pc = "load_index"
    /\ row \in VariationRows
    /\ Locals0

LoadIndex ==
    /\ pc = "load_index"
    /\ \E o \in {load_mappings_index(mappings_file)} :
          IF IsRaise(o)
          THEN pc' = "raised" /\ outcome' = Uncaught(o) /\ mappings_idx' = mappings_idx
          ELSE pc' = "apply_mappings" /\ outcome' = outcome /\ mappings_idx' = o
    /\ UNCHANGED <<pricat_file, mappings_file, output, rows_read, articles_by_number,
                   catalog_brand, rows_processed, row, variation,
                   consumed_input_fields, built>>

\* row_to_variation's first loop.
ApplyMappingsLoop ==
    /\ pc = "apply_mappings"
    /\ \E st \in {ApplyMappings(row, mappings_idx.returned)} :
          /\ variation' = st.variation
          /\ consumed_input_fields' = st.consumed_input_fields
    /\ pc' = "copy_rest"
    /\ UNCHANGED <<pricat_file, mappings_file, output, mappings_idx, rows_read,
                   articles_by_number, catalog_brand, rows_processed, row, built, outcome>>

\* row_to_variation's second loop and its return.
CopyRestLoop ==
    /\ pc = "copy_rest"
    /\ variation' = CopyRest(row, [variation |-> variation,
                                   consumed_input_fields |-> consumed_input_fields])
    /\ pc' = "returned"
    /\ UNCHANGED <<pricat_file, mappings_file, output, mappings_idx, rows_read,
                   articles_by_number, catalog_brand, rows_processed, row,
                   consumed_input_fields, built, outcome>>

NextVariation == LoadIndex \/ ApplyMappingsLoop \/ CopyRestLoop

SpecVariation == InitVariation /\ [][NextVariation]_vars

(***************************************************************************)
(* The claims about load_mappings_index and row_to_variation, under        *)
(* SpecVariation.                                                          *)
(***************************************************************************)
Index == mappings_idx.returned
\* The items of the index whose table has the row's joined literal.
HitItems == {i \in DOMAIN Index : Lookup(row, Index[i]) # None}
DestinationOf(i) == Lookup(row, Index[i])[1]
DestinationValueOf(i) == Lookup(row, Index[i])[2]
\* The field names of the tuples that hit.
ConsumedByHits == UNION {{Index[i][1][j] : j \in DOMAIN Index[i][1]} : i \in HitItems}
\* The row has a column k that is not brand, not consumed and not empty.
RawColumn(k) == k # "brand" /\ k \notin ConsumedByHits /\ DictGet(row, k, "") # ""
\* The raw value v of column k, as a number when k is numeric and v parses.
NumberOrString(k, v) ==
    IF k \in NUMERIC_FIELDS /\ IsReturn(float(v)) THEN float(v).returned ELSE Str(v)
\* The variation has no key k, or a hit wrote it.
NoRawKey(k) == DictHas(variation, k) => \E h \in HitItems : DestinationOf(h) = k

\* C4: the variation row_to_variation returns has no brand key.
C4_NoBrandKey == pc = "returned" => ~DictHas(variation, "brand")

\* C5, as stated: when a rule of the index on two fields (A, B) has the
\* literal the row's A and B values join to, the returned variation holds the
\* rule's destination value under the rule's destination field, and neither
\* A nor B as a raw key.
C5_Original ==
    pc = "returned" =>
        \A i \in HitItems :
            Len(Index[i][1]) = 2 =>
                /\ DictGet(variation, DestinationOf(i), None) = Str(DestinationValueOf(i))
                /\ \A j \in 1..2 : NoRawKey(Index[i][1][j])

\* C5, amended: when a rule of the index on two fields (A, B) has the literal
\* the row's A and B values join to, the returned variation has the rule's
\* destination field, and neither A nor B as a raw key (a key A or B is there
\* only as the destination of a rule that hit); the destination field holds
\* the rule's destination value unless a tuple iterated later hits and writes
\* the same destination, or the row has a column of the destination's name
\* that is not brand, not consumed and not empty.
C5_CombinedRuleConsumesFields ==
    pc = "returned" =>
        \A i \in HitItems :
            Len(Index[i][1]) = 2 =>
                /\ DictHas(variation, DestinationOf(i))
                /\ (/\ ~RawColumn(DestinationOf(i))
                    /\ \A h \in HitItems : h > i => DestinationOf(h) # DestinationOf(i))
                       => DictGet(variation, DestinationOf(i), None)
                              = Str(DestinationValueOf(i))
                /\ \A j \in 1..2 : NoRawKey(Index[i][1][j])

\* The rule on (size_group_code, size_code) hit the row EU, 38: the variation
\* has its size and neither of the two columns.
C5_Witness ==
    /\ pc = "returned"
    /\ \E i \in HitItems : Index[i][1] = <<"size_group_code", "size_code">>
    /\ DictGet(row, "size_group_code", "") = "EU"
    /\ DictGet(row, "size_code", "") = "38"
    /\ DictGet(variation, "size", None) = Str("European size 38")
    /\ ~DictHas(variation, "size_group_code")
    /\ ~DictHas(variation, "size_code")
    /\ DictHas(variation, "article_number")

\* C6, as stated: every numeric field of the row is in the returned variation,
\* as a float when its value parses and as the row's string otherwise.
C6_Original ==
    pc = "returned" =>
        \A i \in DOMAIN row :
            row[i][1] \in NUMERIC_FIELDS =>
                DictGet(variation, row[i][1], None) = NumberOrString(row[i][1], row[i][2])

\* C6, amended: every numeric field of the row that is not empty and not
\* consumed by a rule that hit is in the returned variation, as a float when
\* its value parses and as the row's string otherwise.
C6_NumericFieldsFloatOrString ==
    pc = "returned" =>
        \A i \in DOMAIN row :
            row[i][1] \in NUMERIC_FIELDS /\ RawColumn(row[i][1]) =>
                /\ DictGet(variation, row[i][1], None) = NumberOrString(row[i][1], row[i][2])
                /\ IF IsReturn(float(row[i][2]))
                   THEN IsFloat(DictGet(variation, row[i][1], None))
                   ELSE DictGet(variation, row[i][1], None) = Str(row[i][2])

\* The price "139.950" came out as the float 139.95.
C6_Witness ==
    /\ pc = "returned"
    /\ DictGet(row, "price_sell", "") = "139.950"
    /\ DictGet(variation, "price_sell", None)
           = [float |-> "finite", sign |-> 1, man |-> 13995, exp |-> -2]

\* The rules file, rule by rule: the tuple, the literal and the destination
\* of each rule.
Rules == read_csv_rows(mappings_file).returned
RuleAt(j) ==
    [fields      |-> ParseFields(strip(DictGet(Rules[j], "source_type", ""))),
     source      |-> strip(DictGet(Rules[j], "source", "")),
     destination |-> strip(DictGet(Rules[j], "destination_type", "")),
     value       |-> strip(DictGet(Rules[j], "destination", ""))]
ParsedRules == [j \in DOMAIN Rules |-> RuleAt(j)] \o << >>
\* The first rule on the tuple fields.
FirstRuleOn(rules, fields) ==
    CHOOSE j \in DOMAIN rules :
        rules[j].fields = fields /\ \A l \in 1..(j - 1) : rules[l].fields # fields
\* Rule j is the last with its tuple and its literal.
LastOfItsLiteral(rules, j) ==
    \A l \in DOMAIN rules :
        l > j => ~(rules[l].fields = rules[j].fields /\ rules[l].source = rules[j].source)
\* Rule j is the one its tuple applies to the row.
RuleHitsRow(rules, j) ==
    /\ LastOfItsLiteral(rules, j)
    /\ join("|", FieldValues(row, rules[j].fields)) = rules[j].source
\* No rule that hits the row and writes rule j's destination has a tuple that
\* first appears in the file after the tuple of rule j.
IteratedLast(rules, j) ==
    \A l \in DOMAIN rules :
        RuleHitsRow(rules, l) /\ rules[l].destination = rules[j].destination
            => FirstRuleOn(rules, rules[l].fields) <= FirstRuleOn(rules, rules[j].fields)
\* The index iterates the distinct tuples in the order of their first rules,
\* and a table holds, for a literal, the last rule with its tuple and literal.
IndexInFileOrder(rules) ==
    /\ {Index[a][1] : a \in DOMAIN Index} = {rules[j].fields : j \in DOMAIN rules}
    /\ \A a, b \in DOMAIN Index :
          a < b => FirstRuleOn(rules, Index[a][1]) < FirstRuleOn(rules, Index[b][1])
    /\ \A j \in DOMAIN rules :
          LastOfItsLiteral(rules, j) =>
              /\ DictHas(DictGet(Index, rules[j].fields, EmptyDict), rules[j].source)
              /\ DictGet(DictGet(Index, rules[j].fields, EmptyDict), rules[j].source, << >>)
                     = <<rules[j].destination, rules[j].value>>
\* The variation holds, under the destination of a rule that hits and is
\* iterated last, that rule's value.
LastHitWritten(rules) ==
    \A j \in DOMAIN rules :
        RuleHitsRow(rules, j) /\ IteratedLast(rules, j) =>
            DictGet(variation, rules[j].destination, None) = Str(rules[j].value)

Unconsumed(k, v) == k # "brand" /\ k \notin consumed_input_fields /\ v # ""

\* C10: the raw copy takes every row field that is not brand, not consumed
\* and not empty, with its raw or numerically coerced value, also under a key
\* a rule wrote; a value a rule wrote stays exactly when the row has no such
\* field of the same name; the raw copy adds no other key.
C10_RawCopyOverwritesMapped ==
    [][pc = "copy_rest" =>
          /\ \A i \in DOMAIN row :
                Unconsumed(row[i][1], row[i][2]) =>
                    DictGet(variation', row[i][1], None)
                        = NumberOrString(row[i][1], row[i][2])
          /\ \A d \in DictKeys(variation) :
                IF \E i \in DOMAIN row : row[i][1] = d /\ Unconsumed(d, row[i][2])
                THEN DictGet(variation', d, None) = NumberOrString(d, DictGet(row, d, ""))
                ELSE DictGet(variation', d, None) = DictGet(variation, d, None)
          /\ DictKeys(variation') =
                 DictKeys(variation)
                     \cup {row[i][1] : i \in {l \in DOMAIN row :
                                                  Unconsumed(row[l][1], row[l][2])}}
      ]_vars

\* The combined rule wrote size = "European size 38" and the row's own size
\* column, "XL", replaced it.
C10_Witness ==
    /\ pc = "returned"
    /\ DictGet(ApplyMappings(row, Index).variation, "size", None) = Str("European size 38")
    /\ DictGet(row, "size", "") = "XL"
    /\ "size" \notin consumed_input_fields
    /\ DictGet(variation, "size", None) = Str("XL")

====
